---- MODULE Spec2Model ----
(***************************************************************************)
(* The HTTP services of the AI-DR-Assistant repository as a state machine. *)
(* One behaviour is the life of one process running one of the scripts:    *)
(*   "main"     src/main.py                   (FastAPI, port 8000)         *)
(*   "napi"     src/backend/N_api_backend.py  (FastAPI, port 8001)         *)
(*   "lcdt"     src/backend/LCDT(X-b).py      (Streamlit script)           *)
(*   "feedback" src/backend/feedback_api.py   (FastAPI feedback relay)     *)
(*   "donation" src/backend/donation_api.py   (FastAPI donation service)   *)
(* Scores are fixed-point: the model output k stands for k / ScoreDen.     *)
(***************************************************************************)
EXTENDS Integers, Sequences, FiniteSets

VARIABLES
    file,       \* which script this process runs
    proc,       \* "starting" | "running" | "aborted" (exception left the script)
    model,      \* module-level `model`: Unbound | None | Loaded
    slot,       \* in-flight HTTP requests of main / napi, one record per slot
    display,    \* what the Streamlit script has rendered (lcdt)
    creds,      \* feedback: EMAIL_USER / EMAIL_PASSWORD as read at import
    fb,         \* feedback: the request being served
    fbCount,    \* feedback: accepted submissions and enqueued tasks so far
    don         \* donation: configuration and the request being served

vars == <<file, proc, model, slot, display, creds, fb, fbCount, don>>

(* ------------------------------ bounds -------------------------------- *)

\* scores are k / ScoreDen, k \in 0..ScoreDen
ScoreDen == 20
\* number of requests that can be in flight at once
MaxReq == 2
\* feedback submissions counted before the counters stop
MaxSubmissions == 3
\* donation amounts are 1..MaxAmount
MaxAmount == 3

(* ------------------------- values of the program ---------------------- *)

Unbound == "Unbound"
None == "None"
Loaded == "Loaded"

Files == {"main", "napi", "lcdt", "feedback", "donation"}
ApiFiles == {"main", "napi"}
Slots == 1..MaxReq

\* tf.keras.models.load_model either returns a model or raises
LoadOutcomes == {"ok", "missing_file", "incompatible_format", "corrupt_weights"}

\* the model's forward pass: raises, or returns the sigmoid output k / ScoreDen
ModelOutputs ==
    {[raised |-> TRUE, k |-> 0]} \cup {[raised |-> FALSE, k |-> k] : k \in 0..ScoreDen}

\* uploaded bytes: a PNG the imaging library can open, or plain text
PayloadBytes == {"png_bytes", "text_bytes"}
\* UploadFile.content_type; "None" when the part carries no Content-Type
ContentTypes == {"image/png", "text/plain", "None"}
\* base64 tokens and the JSON bodies of /predict-base64:
\* keys of the dict, and image_data["image"].split(",")
B64Tokens == {"b64(png_bytes)", "b64(text_bytes)", "b64_bad_padding"}
ImageData ==
    {[keys |-> {}, parts |-> <<>>], [keys |-> {"image"}, parts |-> <<"b64(png_bytes)">>]}
    \cup {[keys |-> {"image"}, parts |-> <<"data:image/png;base64", t>>] : t \in B64Tokens}
NoImageData == [keys |-> {}, parts |-> <<>>]

PredictionFields == {"result", "prediction", "confidence", "prediction_score", "raw_value"}

(* ------------------------------ responses ----------------------------- *)

NoResp ==
    [code |-> 0, detail |-> <<>>, fields |-> {}, result |-> "", confidence |-> 0,
     prediction_score |-> 0, status |-> "", model_loaded |-> FALSE]

\* raise HTTPException(status_code=code, detail=detail)
HTTPError(code, detail) ==
    [NoResp EXCEPT !.code = code, !.detail = detail, !.fields = {"detail"}]

\* an exception that no handler catches: the framework answers 500
Unhandled(exc) == HTTPError(500, <<"Internal Server Error">>)

\* except Exception as e: raise HTTPException(500, f"Error processing image: {str(e)}")
Wrap500(exc) == HTTPError(500, <<"Error processing image: ", exc>>)

IdleSlot ==
    [pc |-> "idle", route |-> "", ctype |-> "", bytes |-> "", image_data |-> NoImageData,
     steps |-> <<>>, resp |-> NoResp]

(* ------------------------------ pure steps ---------------------------- *)

\* `if not model`
ModelMissing(m) == m # Loaded

\* file.content_type.startswith('image/')
StartsWithImage(ctype) == ctype = "image/png"

\* Image.open(io.BytesIO(b)).convert('L')
ImageOpen(b) ==
    IF b = "png_bytes" THEN [ok |-> TRUE, exc |-> ""]
    ELSE [ok |-> FALSE, exc |-> "UnidentifiedImageError"]

\* base64.b64decode(token)
B64Decode(t) ==
    CASE t = "b64(png_bytes)" -> [ok |-> TRUE, bytes |-> "png_bytes", exc |-> ""]
      [] t = "b64(text_bytes)" -> [ok |-> TRUE, bytes |-> "text_bytes", exc |-> ""]
      [] OTHER -> [ok |-> FALSE, bytes |-> "", exc |-> "binascii.Error"]

\* base64.b64decode(image_data["image"].split(",")[1])
B64Extract(d) ==
    IF "image" \notin d.keys THEN [ok |-> FALSE, bytes |-> "", exc |-> "KeyError"]
    ELSE IF Len(d.parts) < 2 THEN [ok |-> FALSE, bytes |-> "", exc |-> "IndexError"]
    ELSE B64Decode(d.parts[2])

\* prediction > 0.5, with prediction = k / ScoreDen
AboveThreshold(k) == 2 * k > ScoreDen

(* ------------------------ threshold decisions ------------------------- *)

\* main.py /predict: if prediction > 0.5 ... else ...
MainDecision(k) ==
    IF AboveThreshold(k)
    THEN [result |-> "Danger Detected", confidence |-> k, status |-> "danger"]
    ELSE [result |-> "Normal", confidence |-> ScoreDen - k, status |-> "normal"]

\* /predict-base64 with the else branch reporting the raw score as confidence
MainDecisionB64Unfolded(k) ==
    IF AboveThreshold(k)
    THEN [result |-> "Danger Detected", confidence |-> k, status |-> "danger"]
    ELSE [result |-> "Normal", confidence |-> k, status |-> "normal"]

\* main.py /predict-base64: the same branch, written out a second time
MainDecisionB64(k) ==
    IF AboveThreshold(k)
    THEN [result |-> "Danger Detected", confidence |-> k, status |-> "danger"]
    ELSE [result |-> "Normal", confidence |-> ScoreDen - k, status |-> "normal"]

\* process_and_predict with the comparison written >= instead of >
NapiDecisionInclusive(k) ==
    IF 2 * k >= ScoreDen
    THEN [result |-> "Danger Detected", confidence |-> k]
    ELSE [result |-> "Normal", confidence |-> ScoreDen - k]

\* N_api_backend.process_and_predict: result and confidence only
NapiDecision(k) ==
    IF AboveThreshold(k)
    THEN [result |-> "Danger Detected", confidence |-> k]
    ELSE [result |-> "Normal", confidence |-> ScoreDen - k]

\* the endpoints' status line comparing against a label the pipeline never emits
NapiStatusWrongLabel(result) == IF result = "Danger" THEN "danger" ELSE "normal"

\* N_api_backend endpoints: status derived from the result string
NapiStatus(result) == IF result = "Danger Detected" THEN "danger" ELSE "normal"

\* LCDT(X-b).py: st.error for danger, st.success for normal
LcdtDecision(k) ==
    IF AboveThreshold(k)
    THEN [widget |-> "error", result |-> "Danger Detected", confidence |-> k]
    ELSE [widget |-> "success", result |-> "Normal", confidence |-> ScoreDen - k]

(* --------------------------- success bodies ---------------------------- *)

PredictOK(d, status, k, extra) ==
    [NoResp EXCEPT !.code = 200,
                   !.fields = {"result", "confidence", "prediction_score", "status",
                               "message"} \cup extra,
                   !.result = d.result, !.confidence = d.confidence,
                   !.prediction_score = k, !.status = status]

(* ----------------------------- main.py -------------------------------- *)

\* /predict up to the await: the model check, then the content-type check
MainPredictChecks(m, ctype) ==
    IF ModelMissing(m)
    THEN [pass |-> FALSE, steps |-> <<"check_model">>,
          resp |-> HTTPError(500, <<"Model not loaded">>)]
    ELSE IF ctype = "None"
    THEN [pass |-> FALSE, steps |-> <<"check_model", "check_content_type">>,
          resp |-> Unhandled("AttributeError")]
    ELSE IF ~StartsWithImage(ctype)
    THEN [pass |-> FALSE, steps |-> <<"check_model", "check_content_type">>,
          resp |-> HTTPError(400, <<"File must be an image">>)]
    ELSE [pass |-> TRUE, steps |-> <<"check_model", "check_content_type">>,
          resp |-> NoResp]

\* /predict with a decode failure swallowed: a blank image goes to the model
MainPredictBodyLenient(m, b, out) ==
    IF m # Loaded
    THEN [steps |-> <<"read", "decode", "preprocess">>, resp |-> Wrap500("AttributeError")]
    ELSE IF out.raised
    THEN [steps |-> <<"read", "decode", "preprocess", "predict">>,
          resp |-> Wrap500("InferenceError")]
    ELSE [steps |-> <<"read", "decode", "preprocess", "predict", "classify", "encode_png">>,
          resp |-> LET d == MainDecision(out.k)
                   IN PredictOK(d, d.status, out.k, {"image_base64"})]

\* /predict from the await on: the try block
\* (m is the global as read when model.predict is evaluated)
MainPredictBody(m, b, out) ==
    LET img == ImageOpen(b) IN
    IF ~img.ok
    THEN [steps |-> <<"read", "decode">>, resp |-> Wrap500(img.exc)]
    ELSE IF m # Loaded
    THEN [steps |-> <<"read", "decode", "preprocess">>, resp |-> Wrap500("AttributeError")]
    ELSE IF out.raised
    THEN [steps |-> <<"read", "decode", "preprocess", "predict">>,
          resp |-> Wrap500("InferenceError")]
    ELSE [steps |-> <<"read", "decode", "preprocess", "predict", "classify", "encode_png">>,
          resp |-> LET d == MainDecision(out.k)
                   IN PredictOK(d, d.status, out.k, {"image_base64"})]

\* /predict-base64, a handler without an await
MainPredictBase64(m, d, out) ==
    IF ModelMissing(m)
    THEN [steps |-> <<"check_model">>, resp |-> HTTPError(500, <<"Model not loaded">>)]
    ELSE LET x == B64Extract(d) IN
    IF ~x.ok
    THEN [steps |-> <<"check_model", "b64decode">>, resp |-> Wrap500(x.exc)]
    ELSE LET img == ImageOpen(x.bytes) IN
    IF ~img.ok
    THEN [steps |-> <<"check_model", "b64decode", "decode">>, resp |-> Wrap500(img.exc)]
    ELSE IF out.raised
    THEN [steps |-> <<"check_model", "b64decode", "decode", "preprocess", "predict">>,
          resp |-> Wrap500("InferenceError")]
    ELSE [steps |-> <<"check_model", "b64decode", "decode", "preprocess", "predict",
                      "classify">>,
          resp |-> LET dec == MainDecisionB64(out.k)
                   IN PredictOK(dec, dec.status, out.k, {})]

(* -------------------------- N_api_backend.py --------------------------- *)

\* process_and_predict(image_bytes): returns the dict or raises
ProcessAndPredict(m, b, out) ==
    IF ModelMissing(m)
    THEN [ok |-> FALSE, steps |-> <<"check_model">>,
          exc |-> "503: Model is not available", result |-> "", confidence |-> 0, k |-> 0]
    ELSE LET img == ImageOpen(b) IN
    IF ~img.ok
    THEN [ok |-> FALSE, steps |-> <<"check_model", "decode">>, exc |-> img.exc,
          result |-> "", confidence |-> 0, k |-> 0]
    ELSE IF out.raised
    THEN [ok |-> FALSE, steps |-> <<"check_model", "decode", "preprocess", "predict">>,
          exc |-> "InferenceError", result |-> "", confidence |-> 0, k |-> 0]
    ELSE LET d == NapiDecision(out.k) IN
         [ok |-> TRUE,
          steps |-> <<"check_model", "decode", "preprocess", "predict", "classify">>,
          exc |-> "", result |-> d.result, confidence |-> d.confidence, k |-> out.k]

\* /predict with the content-type test placed before the model test
NapiPredictChecksTypeFirst(m, ctype) ==
    IF ctype = "None"
    THEN [pass |-> FALSE, steps |-> <<"check_content_type">>,
          resp |-> Unhandled("AttributeError")]
    ELSE IF ~StartsWithImage(ctype)
    THEN [pass |-> FALSE, steps |-> <<"check_content_type">>,
          resp |-> HTTPError(400, <<"File must be an image">>)]
    ELSE IF ModelMissing(m)
    THEN [pass |-> FALSE, steps |-> <<"check_content_type", "check_model">>,
          resp |-> HTTPError(500, <<"Model not loaded">>)]
    ELSE [pass |-> TRUE, steps |-> <<"check_content_type", "check_model">>,
          resp |-> NoResp]

NapiPredictChecks(m, ctype) ==
    IF ModelMissing(m)
    THEN [pass |-> FALSE, steps |-> <<"check_model">>,
          resp |-> HTTPError(500, <<"Model not loaded">>)]
    ELSE IF ctype = "None"
    THEN [pass |-> FALSE, steps |-> <<"check_model", "check_content_type">>,
          resp |-> Unhandled("AttributeError")]
    ELSE IF ~StartsWithImage(ctype)
    THEN [pass |-> FALSE, steps |-> <<"check_model", "check_content_type">>,
          resp |-> HTTPError(400, <<"File must be an image">>)]
    ELSE [pass |-> TRUE, steps |-> <<"check_model", "check_content_type">>,
          resp |-> NoResp]

\* the endpoint's try block around process_and_predict
NapiFinish(p, pre) ==
    IF ~p.ok
    THEN [steps |-> pre \o p.steps, resp |-> Wrap500(p.exc)]
    ELSE [steps |-> pre \o p.steps,
          resp |-> PredictOK(p, NapiStatus(p.result), p.k, {})]

NapiPredictBody(m, b, out) == NapiFinish(ProcessAndPredict(m, b, out), <<"read">>)

\* /predict-base64 without the endpoint's own model check, relying on the one
\* inside process_and_predict
NapiPredictBase64Unchecked(m, d, out) ==
    LET x == B64Extract(d) IN
    IF ~x.ok
    THEN [steps |-> <<"b64decode">>, resp |-> Wrap500(x.exc)]
    ELSE NapiFinish(ProcessAndPredict(m, x.bytes, out), <<"b64decode">>)

NapiPredictBase64(m, d, out) ==
    IF ModelMissing(m)
    THEN [steps |-> <<"check_model">>, resp |-> HTTPError(500, <<"Model not loaded">>)]
    ELSE LET x == B64Extract(d) IN
         IF ~x.ok
         THEN [steps |-> <<"check_model", "b64decode">>, resp |-> Wrap500(x.exc)]
         ELSE NapiFinish(ProcessAndPredict(m, x.bytes, out), <<"check_model", "b64decode">>)

\* GET / and GET /health, the same in both files
RootResp == [NoResp EXCEPT !.code = 200, !.fields = {"message"}]
HealthResp(m) ==
    [NoResp EXCEPT !.code = 200, !.fields = {"status", "model_loaded"},
                   !.status = "healthy", !.model_loaded = (m # None)]

(* ---------------------------- LCDT(X-b).py ----------------------------- *)

NoDisplay == [widget |-> "none", result |-> "", confidence |-> 0, k |-> 0]
Uploads == {"no_file"} \cup PayloadBytes

\* the script below the load: `if uploaded_file:` ... st.error / st.success
LcdtScript(upload, out) ==
    IF upload = "no_file" THEN [NoDisplay EXCEPT !.widget = "uploader"]
    ELSE IF ~ImageOpen(upload).ok \/ out.raised THEN [NoDisplay EXCEPT !.widget = "exception"]
    ELSE LET d == LcdtDecision(out.k) IN
         [widget |-> d.widget, result |-> d.result, confidence |-> d.confidence,
          k |-> out.k]

(* ---------------------------- feedback_api.py -------------------------- *)

NameMinLen == 2
NameMaxLen == 50
MessageMinLen == 10
MessageMaxLen == 1000

\* a submission, already stripped of surrounding whitespace
Submissions ==
    [name_len : {NameMinLen - 1, NameMinLen, NameMaxLen, NameMaxLen + 1},
     email_ok : BOOLEAN,
     msg_len : {MessageMinLen - 1, MessageMinLen, MessageMaxLen, MessageMaxLen + 1}]

\* class Feedback(BaseModel): the request validation
FeedbackValid(f) ==
    /\ f.name_len >= NameMinLen /\ f.name_len <= NameMaxLen
    /\ f.email_ok
    /\ f.msg_len >= MessageMinLen /\ f.msg_len <= MessageMaxLen

SmtpOutcomes == {"ok", "auth_error", "error"}

IdleFb ==
    [pc |-> "idle", code |-> 0, status |-> "", tasks |-> <<>>, log |-> <<>>,
     raised |-> FALSE]

\* submit_feedback sending the email itself before it returns
SubmitFeedbackInline(f) ==
    [code |-> 200, status |-> "success", tasks |-> <<>>, log |-> <<"sent">>]

\* submit_feedback(feedback, background_tasks): what it returns and what it enqueues
SubmitFeedbackHandler(f) ==
    [code |-> 200, status |-> "success", tasks |-> <<"send_feedback_email">>, log |-> <<>>]

\* send_feedback_email(name, email, message) under an SMTP outcome
SendFeedbackEmail(c, smtp) ==
    IF ~c.user \/ ~c.password THEN [outcome |-> "skipped", raised |-> FALSE]
    ELSE CASE smtp = "ok" -> [outcome |-> "sent", raised |-> FALSE]
           [] smtp = "auth_error" -> [outcome |-> "auth_failed", raised |-> FALSE]
           [] OTHER -> [outcome |-> "failed", raised |-> FALSE]

(* ---------------------------- donation_api.py -------------------------- *)

\* class Donation(BaseModel): amount is a PositiveInt
Donations == [amount : 1..MaxAmount]

\* stripe.checkout.Session.create either returns a session or raises
StripeOutcomes == {"ok", "error"}

\* what a webhook request carries: whether the payload parses and the signature
\* verifies, and the fields of the event the handler reads; a field of the
\* session is absent, JSON null, or set
WebhookRequests ==
    [payload_ok : BOOLEAN, sig_ok : BOOLEAN,
     type : {"checkout.session.completed", "payment_intent.succeeded"},
     customer_email : {"null", "donor@example.com"},
     metadata : {"absent", "null", "object"},
     amount_total : {"absent", "null", "int"}]

\* no request in service; the configuration read at import stays
IdleDon(key, secret) ==
    [stripe_key |-> key, webhook_secret |-> secret, pc |-> "idle", route |-> "",
     code |-> 0, status |-> "", amount |-> 0, created |-> FALSE, unit_amount |-> 0,
     verified |-> FALSE, type |-> "", customer_email |-> "", metadata |-> "",
     amount_total |-> "", emails |-> <<>>]

\* create_checkout_session(donation)
CreateCheckoutSession(key, d, stripe) ==
    IF ~key
    THEN [code |-> 500, created |-> FALSE, unit_amount |-> 0]
    ELSE IF stripe = "error"
    THEN [code |-> 500, created |-> TRUE, unit_amount |-> d.amount * 100]
    ELSE [code |-> 200, created |-> TRUE, unit_amount |-> d.amount * 100]

\* send_confirmation_email(to_email, subject, body) under an SMTP outcome
SendConfirmationEmail(c, to, smtp) ==
    IF ~c.user \/ ~c.password THEN [to |-> to, outcome |-> "skipped"]
    ELSE IF smtp = "ok" THEN [to |-> to, outcome |-> "sent"]
    ELSE [to |-> to, outcome |-> "failed"]

\* stripe.Webhook.construct_event(payload, sig_header, secret)
ConstructEvent(q) ==
    IF ~q.payload_ok THEN "ValueError"
    ELSE IF ~q.sig_ok THEN "SignatureVerificationError"
    ELSE "event"

\* stripe_webhook(request, stripe_signature)
StripeWebhook(secret, c, q, smtp1, smtp2) ==
    IF ~secret
    THEN [code |-> 500, status |-> "", verified |-> FALSE, emails |-> <<>>]
    ELSE IF ConstructEvent(q) # "event"
    THEN [code |-> 400, status |-> "", verified |-> FALSE, emails |-> <<>>]
    ELSE IF q.type # "checkout.session.completed"
    THEN [code |-> 200, status |-> "success", verified |-> TRUE, emails |-> <<>>]
    \* session.get('metadata', {}).get(...): None has no .get
    ELSE IF q.metadata = "null"
    THEN [code |-> 500, status |-> "", verified |-> TRUE, emails |-> <<>>]
    \* session.get('amount_total', 0) / 100: None / 100 is a TypeError
    ELSE IF q.amount_total = "null"
    THEN [code |-> 500, status |-> "", verified |-> TRUE, emails |-> <<>>]
    ELSE [code |-> 200, status |-> "success", verified |-> TRUE,
          emails |-> (IF q.customer_email # "null"
                      THEN <<SendConfirmationEmail(c, "donor", smtp1)>> ELSE <<>>)
                     \o <<SendConfirmationEmail(c, "team", smtp2)>>]

(* ------------------------------- startup ------------------------------- *)

\* main.py: try: model = load_model(...) except Exception: model = None
MainLoad(o) ==
    IF o = "ok" THEN [model |-> Loaded, proc |-> "running"]
    ELSE [model |-> None, proc |-> "running"]

\* N_api_backend.py: model = None; try: model = load_model('h.h5') except: model = None
NapiLoad(o) ==
    IF o = "ok" THEN [model |-> Loaded, proc |-> "running"]
    ELSE [model |-> None, proc |-> "running"]

\* LCDT(X-b).py: model = load_model(...) with no handler around it
LcdtLoad(o) ==
    IF o = "ok" THEN [model |-> Loaded, proc |-> "running"]
    ELSE [model |-> Unbound, proc |-> "aborted"]

Init ==
    /\ file \in Files
    /\ proc = "starting"
    /\ model = Unbound
    /\ slot = [r \in Slots |-> IdleSlot]
    /\ display = NoDisplay
    /\ creds = [user |-> FALSE, password |-> FALSE]
    /\ fb = IdleFb
    /\ fbCount = [submitted |-> 0, accepted |-> 0, enqueued |-> 0]
    /\ don = IdleDon(FALSE, FALSE)

MainStartup ==
    /\ file = "main" /\ proc = "starting"
    /\ \E o \in LoadOutcomes :
         /\ model' = MainLoad(o).model
         /\ proc' = MainLoad(o).proc
    /\ UNCHANGED <<don, file, slot, display, creds, fb, fbCount>>

NapiStartup ==
    /\ file = "napi" /\ proc = "starting"
    /\ \E o \in LoadOutcomes :
         /\ model' = NapiLoad(o).model
         /\ proc' = NapiLoad(o).proc
    /\ UNCHANGED <<don, file, slot, display, creds, fb, fbCount>>

LcdtStartup ==
    /\ file = "lcdt" /\ proc = "starting"
    /\ \E o \in LoadOutcomes :
         /\ model' = LcdtLoad(o).model
         /\ proc' = LcdtLoad(o).proc
    /\ UNCHANGED <<don, file, slot, display, creds, fb, fbCount>>

\* feedback_api.py import: EMAIL_USER / EMAIL_PASSWORD from the environment
FeedbackStartup ==
    /\ file = "feedback" /\ proc = "starting"
    /\ creds' \in [user : BOOLEAN, password : BOOLEAN]
    /\ proc' = "running"
    /\ UNCHANGED <<don, file, model, slot, display, fb, fbCount>>

(* ------------------------ requests of main / napi ---------------------- *)

Serving == file \in ApiFiles /\ proc = "running"

Done(r, route, h) ==
    slot' = [slot EXCEPT ![r] = [@ EXCEPT !.pc = "done", !.route = route,
                                           !.steps = h.steps, !.resp = h.resp]]

\* GET /
Root(r) ==
    /\ Serving /\ slot[r].pc = "idle"
    /\ Done(r, "/", [steps |-> <<>>, resp |-> RootResp])
    /\ UNCHANGED <<don, file, proc, model, display, creds, fb, fbCount>>

\* GET /health
Health(r) ==
    /\ Serving /\ slot[r].pc = "idle"
    /\ Done(r, "/health", [steps |-> <<>>, resp |-> HealthResp(model)])
    /\ UNCHANGED <<don, file, proc, model, display, creds, fb, fbCount>>

\* POST /predict, up to `await file.read()`
PredictBegin(r) ==
    /\ Serving /\ slot[r].pc = "idle"
    /\ \E ctype \in ContentTypes, b \in PayloadBytes :
         LET c == IF file = "main" THEN MainPredictChecks(model, ctype)
                  ELSE NapiPredictChecks(model, ctype)
         IN slot' = [slot EXCEPT ![r] =
                [@ EXCEPT !.pc = IF c.pass THEN "reading" ELSE "done",
                          !.route = "/predict", !.ctype = ctype, !.bytes = b,
                          !.steps = c.steps, !.resp = c.resp]]
    /\ UNCHANGED <<don, file, proc, model, display, creds, fb, fbCount>>

\* /predict resumed, with a handler that drops the model after a failed request
PredictResumeUnload(r) ==
    /\ Serving /\ slot[r].pc = "reading"
    /\ \E out \in ModelOutputs :
         LET h == IF file = "main" THEN MainPredictBody(model, slot[r].bytes, out)
                  ELSE NapiPredictBody(model, slot[r].bytes, out)
         IN /\ Done(r, "/predict", [steps |-> slot[r].steps \o h.steps, resp |-> h.resp])
            /\ model' = IF h.resp.code = 200 THEN model ELSE None
    /\ UNCHANGED <<don, file, proc, display, creds, fb, fbCount>>

\* POST /predict, from the await to the response
PredictResume(r) ==
    /\ Serving /\ slot[r].pc = "reading"
    /\ \E out \in ModelOutputs :
         LET h == IF file = "main" THEN MainPredictBody(model, slot[r].bytes, out)
                  ELSE NapiPredictBody(model, slot[r].bytes, out)
         IN Done(r, "/predict", [steps |-> slot[r].steps \o h.steps, resp |-> h.resp])
    /\ UNCHANGED <<don, file, proc, model, display, creds, fb, fbCount>>

\* POST /predict-base64
PredictBase64(r) ==
    /\ Serving /\ slot[r].pc = "idle"
    /\ \E d \in ImageData, out \in ModelOutputs :
         LET h == IF file = "main" THEN MainPredictBase64(model, d, out)
                  ELSE NapiPredictBase64(model, d, out)
         IN slot' = [slot EXCEPT ![r] =
                [@ EXCEPT !.pc = "done", !.route = "/predict-base64", !.image_data = d,
                          !.steps = h.steps, !.resp = h.resp]]
    /\ UNCHANGED <<don, file, proc, model, display, creds, fb, fbCount>>

\* the response has left; the slot serves the next request
Finish(r) ==
    /\ slot[r].pc = "done"
    /\ slot' = [slot EXCEPT ![r] = IdleSlot]
    /\ UNCHANGED <<don, file, proc, model, display, creds, fb, fbCount>>

(* --------------------------- the lcdt script --------------------------- *)

\* one run of the script body after a successful load
LcdtRun ==
    /\ file = "lcdt" /\ proc = "running" /\ display.widget = "none"
    /\ \E u \in Uploads, out \in ModelOutputs :
         /\ display' = LcdtScript(u, out)
         /\ proc' = IF LcdtScript(u, out).widget = "exception" THEN "aborted" ELSE proc
    /\ UNCHANGED <<don, file, model, slot, creds, fb, fbCount>>

\* Streamlit runs the whole script again on the next interaction
LcdtRerun ==
    /\ file = "lcdt"
    /\ proc = "aborted" \/ display.widget # "none"
    /\ proc' = "starting" /\ model' = Unbound /\ display' = NoDisplay
    /\ UNCHANGED <<don, file, slot, creds, fb, fbCount>>

(* -------------------------- feedback requests -------------------------- *)

\* POST /feedback: validation, then the handler
SubmitFeedback ==
    /\ file = "feedback" /\ proc = "running" /\ fb.pc = "idle"
    /\ fbCount.submitted < MaxSubmissions
    /\ \E f \in Submissions :
         IF FeedbackValid(f)
         THEN LET h == SubmitFeedbackHandler(f) IN
              /\ fb' = [IdleFb EXCEPT !.pc = "returned", !.code = h.code,
                                      !.status = h.status, !.tasks = h.tasks,
                                      !.log = h.log]
              /\ fbCount' = [submitted |-> fbCount.submitted + 1,
                             accepted |-> fbCount.accepted + 1,
                             enqueued |-> fbCount.enqueued + Len(h.tasks)]
         ELSE /\ fb' = [IdleFb EXCEPT !.pc = "returned", !.code = 422, !.status = "invalid"]
              /\ fbCount' = [fbCount EXCEPT !.submitted = @ + 1]
    /\ UNCHANGED <<don, file, proc, model, slot, display, creds>>

\* the framework sends the response the handler returned
DeliverResponse ==
    /\ file = "feedback" /\ fb.pc = "returned"
    /\ fb' = [fb EXCEPT !.pc = "delivered"]
    /\ UNCHANGED <<don, file, proc, model, slot, display, creds, fbCount>>

\* the framework runs the next background task of the delivered response
RunBackgroundTask ==
    /\ file = "feedback" /\ fb.pc = "delivered" /\ fb.tasks # <<>>
    /\ \E smtp \in SmtpOutcomes :
         LET e == SendFeedbackEmail(creds, smtp) IN
         fb' = [fb EXCEPT !.tasks = Tail(@), !.log = Append(@, e.outcome),
                          !.raised = e.raised]
    /\ UNCHANGED <<don, file, proc, model, slot, display, creds, fbCount>>

\* the request is over
FeedbackDone ==
    /\ file = "feedback" /\ fb.pc = "delivered" /\ fb.tasks = <<>>
    /\ fb' = IdleFb
    /\ UNCHANGED <<don, file, proc, model, slot, display, creds, fbCount>>

(* -------------------------- donation requests -------------------------- *)

\* donation_api.py import: the Stripe keys and email credentials from the environment
DonationStartup ==
    /\ file = "donation" /\ proc = "starting"
    /\ \E key \in BOOLEAN, secret \in BOOLEAN : don' = IdleDon(key, secret)
    /\ creds' \in [user : BOOLEAN, password : BOOLEAN]
    /\ proc' = "running"
    /\ UNCHANGED <<file, model, slot, display, fb, fbCount>>

\* POST /create-checkout-session
CreateCheckout ==
    /\ file = "donation" /\ proc = "running" /\ don.pc = "idle"
    /\ \E d \in Donations, stripe \in StripeOutcomes :
         LET h == CreateCheckoutSession(don.stripe_key, d, stripe) IN
         don' = [don EXCEPT !.pc = "done", !.route = "/create-checkout-session",
                            !.code = h.code, !.amount = d.amount,
                            !.created = h.created, !.unit_amount = h.unit_amount]
    /\ UNCHANGED <<file, proc, model, slot, display, creds, fb, fbCount>>

\* POST /stripe-webhook
Webhook ==
    /\ file = "donation" /\ proc = "running" /\ don.pc = "idle"
    /\ \E q \in WebhookRequests, smtp1 \in SmtpOutcomes, smtp2 \in SmtpOutcomes :
         LET h == StripeWebhook(don.webhook_secret, creds, q, smtp1, smtp2) IN
         don' = [don EXCEPT !.pc = "done", !.route = "/stripe-webhook",
                            !.code = h.code, !.status = h.status,
                            !.verified = h.verified, !.type = q.type,
                            !.customer_email = q.customer_email,
                            !.metadata = q.metadata, !.amount_total = q.amount_total,
                            !.emails = h.emails]
    /\ UNCHANGED <<file, proc, model, slot, display, creds, fb, fbCount>>

\* the response has left; the next request can come
DonationFinish ==
    /\ file = "donation" /\ don.pc = "done"
    /\ don' = IdleDon(don.stripe_key, don.webhook_secret)
    /\ UNCHANGED <<file, proc, model, slot, display, creds, fb, fbCount>>

Next ==
    \/ MainStartup \/ NapiStartup \/ LcdtStartup \/ FeedbackStartup
    \/ \E r \in Slots :
         \/ Root(r) \/ Health(r) \/ PredictBegin(r) \/ PredictResume(r)
         \/ PredictBase64(r) \/ Finish(r)
    \/ LcdtRun \/ LcdtRerun
    \/ SubmitFeedback \/ DeliverResponse \/ RunBackgroundTask \/ FeedbackDone
    \/ DonationStartup \/ CreateCheckout \/ Webhook \/ DonationFinish

Spec == Init /\ [][Next]_vars

(* ======================= properties of the services ==================== *)

PredictRoutes == {"/predict", "/predict-base64"}
PayloadSteps == {"read", "b64decode", "decode", "preprocess", "predict"}
StepSet(q) == {q[i] : i \in 1..Len(q)}
\* a prediction response of main / napi
Predicted(r) ==
    slot[r].pc = "done" /\ slot[r].route \in PredictRoutes /\ slot[r].resp.code = 200
\* a predict request that has been answered
Answered(r) == slot[r].pc = "done" /\ slot[r].route \in PredictRoutes
\* the request's image bytes cannot be decoded (or, base64 route, cannot be extracted)
BadImage(r) ==
    \/ slot[r].route = "/predict" /\ slot[r].bytes # "png_bytes"
    \/ /\ slot[r].route = "/predict-base64"
       /\ \/ "image" \notin slot[r].image_data.keys
          \/ Len(slot[r].image_data.parts) < 2
          \/ slot[r].image_data.parts[2] # "b64(png_bytes)"
\* the bytes reach the decoder and are not an image
UndecodableBytes(r) ==
    \/ slot[r].route = "/predict" /\ slot[r].bytes = "text_bytes"
    \/ /\ slot[r].route = "/predict-base64"
       /\ "image" \in slot[r].image_data.keys
       /\ Len(slot[r].image_data.parts) >= 2
       /\ slot[r].image_data.parts[2] = "b64(text_bytes)"

\* C1: in every file the emitted label is "Danger Detected" iff the raw score
\* k / ScoreDen is strictly above 0.5 (2k > ScoreDen); a score of exactly 0.5 is
\* "Normal". Holds for every prediction response of main / napi and for what
\* the lcdt script renders.
C1_LabelIffAboveHalf ==
    /\ \A r \in Slots : Predicted(r) =>
         /\ slot[r].resp.result \in {"Danger Detected", "Normal"}
         /\ (slot[r].resp.result = "Danger Detected")
              <=> (2 * slot[r].resp.prediction_score > ScoreDen)
    /\ display.widget \in {"error", "success"} =>
         /\ display.result \in {"Danger Detected", "Normal"}
         /\ (display.result = "Danger Detected") <=> (2 * display.k > ScoreDen)
         /\ (display.widget = "error") <=> (2 * display.k > ScoreDen)

\* C1 witness: a score of exactly 0.5 has been answered "Normal" by an API route
C1_Witness ==
    \E r \in Slots : Predicted(r) /\ 2 * slot[r].resp.prediction_score = ScoreDen
                     /\ slot[r].resp.result = "Normal"

\* C2: the confidence of every prediction response is the score when the score
\* is above 0.5 and one minus the score otherwise, hence within [0.5, 1.0]
\* (in ScoreDen-ths: between ScoreDen / 2 and ScoreDen).
C2_ConfidenceFolded ==
    \A r \in Slots : Predicted(r) =>
        LET k == slot[r].resp.prediction_score
            c == slot[r].resp.confidence
        IN /\ c = IF 2 * k > ScoreDen THEN k ELSE ScoreDen - k
           /\ 2 * c >= ScoreDen
           /\ c <= ScoreDen

\* C2 witness: a score below 0.5 answered with confidence one minus the score
C2_Witness ==
    \E r \in Slots : Predicted(r) /\ slot[r].resp.prediction_score = 0
                     /\ slot[r].resp.confidence = ScoreDen

\* C3: while the model is unavailable every predict request, whatever its
\* payload and content type, ends at the model check: it is answered with the
\* model-not-loaded error and no step that reads, base64-decodes or image-decodes
\* the payload or calls the model has run in it.
C3_UnavailableBeforePayload ==
    \A r \in Slots :
        (file \in ApiFiles /\ model # Loaded /\ slot[r].route \in PredictRoutes) =>
            /\ slot[r].pc = "done"
            /\ slot[r].resp.code >= 500
            /\ slot[r].resp.detail = <<"Model not loaded">>
            /\ slot[r].steps = <<"check_model">>
            /\ StepSet(slot[r].steps) \cap PayloadSteps = {}

\* C3 witness: with the model unavailable, a base64 request carrying a good PNG
\* and a /predict upload have both been answered
C3_Witness ==
    /\ model = None
    /\ \E r1, r2 \in Slots :
         /\ Answered(r1) /\ slot[r1].route = "/predict-base64" /\ ~BadImage(r1)
         /\ Answered(r2) /\ slot[r2].route = "/predict" /\ slot[r2].ctype = "text/plain"

\* C4 (as claimed): with the model unavailable a predict request is answered 503
\* and without prediction fields.
C4_Unavailable503 ==
    \A r \in Slots : (model = None /\ Answered(r)) =>
        /\ slot[r].resp.code = 503
        /\ slot[r].resp.fields \cap PredictionFields = {}

\* C5 (as claimed): with the model loaded, a predict request whose bytes are not
\* a decodable image is answered with a 4xx status.
C5_UndecodableIs4xx ==
    \A r \in Slots :
        (model = Loaded /\ Answered(r) /\ UndecodableBytes(r)
            /\ (slot[r].route = "/predict" => slot[r].ctype = "image/png")) =>
        (slot[r].resp.code >= 400 /\ slot[r].resp.code <= 499)

\* position of the first occurrence of step x in q (0 when absent)
FirstAt(q, x) ==
    IF x \in StepSet(q) THEN CHOOSE i \in 1..Len(q) : q[i] = x /\ \A j \in 1..(i - 1) : q[j] # x
    ELSE 0

\* C6: in a predict request whose payload fails image decoding or base64
\* extraction the model's predict call never runs and the request does not end
\* in a prediction; and whenever predict did run, decode ran before it.
C6_NoInferenceAfterDecodeFailure ==
    \A r \in Slots : slot[r].route \in PredictRoutes =>
        /\ BadImage(r) =>
             /\ "predict" \notin StepSet(slot[r].steps)
             /\ slot[r].pc = "done" => slot[r].resp.code # 200
        /\ "predict" \in StepSet(slot[r].steps) =>
             /\ FirstAt(slot[r].steps, "decode") > 0
             /\ FirstAt(slot[r].steps, "decode") < FirstAt(slot[r].steps, "predict")

\* C6 witness: with the model loaded, a /predict upload declared image/png whose
\* bytes are text got as far as the decoder and was answered
C6_Witness ==
    \E r \in Slots :
        /\ model = Loaded /\ Answered(r) /\ slot[r].route = "/predict"
        /\ slot[r].bytes = "text_bytes"
        /\ "decode" \in StepSet(slot[r].steps)

\* C7 (as claimed): in main, napi and lcdt alike, once startup is over a model
\* that did not load is recorded as None and the process is running.
C7_LoadFailureIsSentinel ==
    (file \in {"main", "napi", "lcdt"} /\ proc # "starting" /\ model # Loaded) =>
        (model = None /\ proc = "running")

\* C8: once main / napi are serving, no step of any request, in any
\* interleaving, changes the model handle or the process state, and a step
\* writes nothing but the one request it belongs to.
C8_ModelNeverReassigned ==
    [][(file \in ApiFiles /\ proc = "running") =>
          /\ model' = model
          /\ proc' = proc
          /\ file' = file
          /\ Cardinality({r \in Slots : slot'[r] # slot[r]}) <= 1]_vars

\* C8 witness: two requests in flight at once on a loaded model, one suspended
\* at its read and one already failed
C8_Witness ==
    /\ model = Loaded
    /\ \E r1, r2 \in Slots :
         /\ slot[r1].pc = "reading"
         /\ slot[r2].pc = "done" /\ slot[r2].resp.code = 500

\* the failure a request ended in, by the step it ended at
FailureKind(r) ==
    IF ~Answered(r) \/ slot[r].resp.code = 200 \/ slot[r].steps = <<>> THEN "none"
    ELSE LET last == slot[r].steps[Len(slot[r].steps)] IN
         CASE last = "check_model" -> "ModelUnavailable"
           [] last \in {"decode", "b64decode"} -> "DecodeError"
           [] last = "predict" -> "InferenceError"
           [] OTHER -> "none"
\* what the caller can tell a failure by: the status and the head of the detail
ErrorClass(r) == <<slot[r].resp.code, Head(slot[r].resp.detail)>>

\* C9 (as claimed): failures of different kinds reach the caller with different
\* error classes, and no failure carries prediction fields.
C9_FailuresDistinguishable ==
    \A r1, r2 \in Slots :
        /\ FailureKind(r1) # "none" => slot[r1].resp.fields \cap PredictionFields = {}
        /\ (FailureKind(r1) # "none" /\ FailureKind(r2) # "none"
              /\ FailureKind(r1) # FailureKind(r2)) => ErrorClass(r1) # ErrorClass(r2)

\* C10: an email send is attempted only after the success response of an
\* accepted submission has been delivered; each accepted submission enqueues
\* exactly one task (rejected ones none); the response stays "success" whatever
\* the send does, and the send never raises.
C10_FeedbackRespondsBeforeEmail ==
    /\ fb.log # <<>> => (fb.pc = "delivered" /\ fb.code = 200 /\ fb.status = "success")
    /\ fbCount.enqueued = fbCount.accepted
    /\ fb.code = 200 => Len(fb.tasks) + Len(fb.log) = 1
    /\ (fb.pc # "idle" /\ fb.code # 200) => (fb.tasks = <<>> /\ fb.log = <<>>)
    /\ ~fb.raised

\* C10 witness: the SMTP send of an accepted, already answered submission failed
C10_Witness ==
    /\ fb.pc = "delivered" /\ fb.code = 200 /\ fb.status = "success"
    /\ fb.log = <<"failed">> /\ fbCount.accepted >= 1

\* C11 (as claimed): the unit_amount handed to the payment processor, which is
\* in cents, equals the amount field of the donation request.
C11_UnitAmountIsAmount ==
    (don.pc = "done" /\ don.route = "/create-checkout-session" /\ don.created) =>
        don.unit_amount = don.amount

\* the whole /predict handler of each file: the checks, then the try block
MainPredict(m, ctype, b, out) ==
    LET c == MainPredictChecks(m, ctype)
    IN IF c.pass THEN MainPredictBody(m, b, out).resp ELSE c.resp
NapiPredict(m, ctype, b, out) ==
    LET c == NapiPredictChecks(m, ctype)
    IN IF c.pass THEN NapiPredictBody(m, b, out).resp ELSE c.resp
\* the /predict-base64 body that carries the bytes b
AsDataUrl(b) ==
    [keys |-> {"image"},
     parts |-> <<"data:image/png;base64",
                 IF b = "png_bytes" THEN "b64(png_bytes)" ELSE "b64(text_bytes)">>]
\* the values the routes are compared on
Compared(resp) ==
    <<resp.code, resp.result, resp.confidence, resp.prediction_score, resp.status>>
\* what the four routes answer for model state m, bytes b, model output out
FourRoutes(m, ctype, b, out) ==
    {Compared(MainPredict(m, ctype, b, out)),
     Compared(MainPredictBase64(m, AsDataUrl(b), out).resp),
     Compared(NapiPredict(m, ctype, b, out)),
     Compared(NapiPredictBase64(m, AsDataUrl(b), out).resp)}
\* the request of slot r carries image bytes, and which
CarriesBytes(r) ==
    slot[r].route = "/predict" \/ B64Extract(slot[r].image_data).ok
BytesOf(r) ==
    IF slot[r].route = "/predict" THEN slot[r].bytes
    ELSE B64Extract(slot[r].image_data).bytes
\* the model outputs the answered request of slot r is consistent with: the one
\* it got when the model was called, any when it was not
OutputsOf(r) ==
    IF slot[r].resp.code = 200
    THEN {[raised |-> FALSE, k |-> slot[r].resp.prediction_score]}
    ELSE IF "predict" \in StepSet(slot[r].steps) THEN {[raised |-> TRUE, k |-> 0]}
    ELSE ModelOutputs
\* the content types a /predict upload of the same bytes may declare
TypesOf(r) == IF slot[r].route = "/predict" THEN {slot[r].ctype} ELSE ContentTypes
StatusMatchesResult(r) ==
    Predicted(r) =>
        ((slot[r].resp.status = "danger") <=> (slot[r].resp.result = "Danger Detected"))

\* C12 (as claimed): for the same model state, image bytes and model output the
\* four predict routes give the answer this request got: same HTTP status,
\* result, confidence, prediction_score and status; and a success response has
\* status "danger" iff its result is "Danger Detected".
C12_RoutesEquivalent ==
    \A r \in Slots : (Answered(r) /\ CarriesBytes(r)) =>
        /\ \A out \in OutputsOf(r), ctype \in TypesOf(r) :
             FourRoutes(model, ctype, BytesOf(r), out) = {Compared(slot[r].resp)}
        /\ StatusMatchesResult(r)

\* C12 (amended): the same, for /predict uploads whose declared content type
\* starts with image/.
C12_RoutesEquivalentForImageTypes ==
    \A r \in Slots : (Answered(r) /\ CarriesBytes(r)) =>
        /\ \A out \in OutputsOf(r), ctype \in TypesOf(r) :
             StartsWithImage(ctype) =>
                FourRoutes(model, ctype, BytesOf(r), out) = {Compared(slot[r].resp)}
        /\ StatusMatchesResult(r)

\* C12 witness: napi has answered a base64 request with a danger prediction and
\* a /predict upload declared image/png with an error
C12_Witness ==
    /\ file = "napi"
    /\ \E r1, r2 \in Slots :
         /\ Predicted(r1) /\ slot[r1].route = "/predict-base64"
         /\ slot[r1].resp.status = "danger"
         /\ Answered(r2) /\ slot[r2].route = "/predict" /\ slot[r2].ctype = "image/png"
         /\ slot[r2].resp.code = 500

SendsTo(to) == {i \in 1..Len(don.emails) : don.emails[i].to = to}

\* C14 (as claimed): a webhook request attempts no email send unless the
\* webhook secret is configured, the signature verified and the event is
\* checkout.session.completed; for such an event the team notification is
\* attempted exactly once, the donor confirmation exactly once iff the session
\* has a customer_email, donor before team; and every verified event is
\* answered {"status": "success"}.
C14_WebhookEmailsAndSuccess ==
    (don.pc = "done" /\ don.route = "/stripe-webhook") =>
        /\ don.emails # <<>> =>
             (don.webhook_secret /\ don.verified
                /\ don.type = "checkout.session.completed")
        /\ (don.verified /\ don.type = "checkout.session.completed") =>
             /\ Cardinality(SendsTo("team")) = 1
             /\ Cardinality(SendsTo("donor")) =
                  (IF don.customer_email # "null" THEN 1 ELSE 0)
             /\ don.emails[Len(don.emails)].to = "team"
        /\ don.verified => (don.code = 200 /\ don.status = "success")

====
